---- MODULE Spec2Model ----
(***************************************************************************)
(* A model of the agent reasoning loop (agents/base_agent.py) and of the   *)
(* plan executor (agents/orchestrator.py, agents/planner.py).              *)
(*                                                                         *)
(* Texts (model replies, prompts, error strings) are sequences of tokens.  *)
(* A token is a character that the parsers look for ("{", "}", "(", ")",   *)
(* "=", ",", " "), a word without such characters, or the members of a     *)
(* well-formed JSON object (what stands between its braces).               *)
(***************************************************************************)
EXTENDS Integers, Sequences, FiniteSets, TLC

VARIABLES
    conversation_history,  \* BaseAgent.conversation_history, one per agent
    frame,                 \* the running think call: its locals and position
    llm_calls,             \* number of call_llm calls of the running think call
    tool_calls,            \* number of execute_tool calls of the running think call
    think_count,           \* number of think calls started (SpecThink only)
    opc,                   \* position of Orchestrator.process_task
    plan,                  \* process_task: plan
    step_index,            \* process_task: index of the step being processed
    results,               \* process_task: results
    user_query,            \* process_task: user_query argument
    run_context,           \* process_task: context argument
    unmet,                 \* per step of the run, the dependency ids line 66 found missing
    invoked,               \* the steps of the run (by index) whose worker's think was called
    returned,              \* value returned by the last process_task call
    execution_log,         \* Orchestrator.execution_log
    run_count,             \* number of process_task calls started
    invocation,            \* a call of a capability invoker: its arguments, locals and position
    parsed,                \* a call of a response parser: its text and what it returned
    memory,                \* a ShortTermMemory object, and what get_messages returned last
    tasks,                 \* api/main.py: the keys of the global tasks dict
    task_objects,          \* api/main.py: the task dicts ever created, by task id
    coroutines,            \* api/main.py: the position of the process_task coroutine of each task
    api_response           \* api/main.py: what the last get_task call returned

vars == <<conversation_history, frame, llm_calls, tool_calls, think_count,
          opc, plan, step_index, results, user_query, run_context, unmet,
          invoked, returned, execution_log, run_count,
          invocation, parsed, memory, tasks, task_objects, coroutines, api_response>>

\* The state of the components beside the agents and the orchestrator
extVars == <<invocation, parsed, memory, tasks, task_objects, coroutines, api_response>>

thinkVars == <<conversation_history, frame, llm_calls, tool_calls, think_count>>
orchVars == <<opc, plan, step_index, results, user_query, run_context, unmet,
              invoked, returned, execution_log, run_count>>

-----------------------------------------------------------------------------
(* Bounds *)

MaxThinkCalls == 2
MaxSteps == 2
MaxRuns == 2

-----------------------------------------------------------------------------
(* JSON values and texts *)

JVal(t, v) == [t |-> t, v |-> v]
NoKey == JVal("nokey", "")
JStr(s) == JVal("str", s)
JList(s) == JVal("list", s)
JMap(s) == JVal("map", s)

\* A decoded JSON object, as far as the code looks into it.
NoSteps == <<>>
Obj(tool, arguments) ==
    [tool |-> tool, arguments |-> arguments, hasSteps |-> FALSE,
     steps |-> NoSteps, hasError |-> FALSE]
EmptyObj == Obj(NoKey, NoKey)

\* Tokens: a character, a word, the members of a JSON object
P(c) == [k |-> "p", v |-> c]
W(s) == [k |-> "w", v |-> s]
J(o) == [k |-> "j", o |-> o]

IsP(tok, c) == tok.k = "p" /\ tok.v = c

\* c in text
HasChar(text, c) == \E i \in 1..Len(text) : IsP(text[i], c)

\* text.find(c) and text.rfind(c): 0 when there is none
Find(text, c) ==
    IF HasChar(text, c)
    THEN CHOOSE i \in 1..Len(text) :
            IsP(text[i], c) /\ \A j \in 1..(i - 1) : ~IsP(text[j], c)
    ELSE 0
RFind(text, c) ==
    IF HasChar(text, c)
    THEN CHOOSE i \in 1..Len(text) :
            IsP(text[i], c) /\ \A j \in (i + 1)..Len(text) : ~IsP(text[j], c)
    ELSE 0

\* text.strip()
RECURSIVE LStrip(_)
LStrip(text) ==
    IF text # <<>> /\ IsP(Head(text), " ") THEN LStrip(Tail(text)) ELSE text
RECURSIVE RStrip(_)
RStrip(text) ==
    IF text # <<>> /\ IsP(text[Len(text)], " ")
    THEN RStrip(SubSeq(text, 1, Len(text) - 1))
    ELSE text
Strip(text) == RStrip(LStrip(text))

\* json.loads(text): the decoded object, or a JSONDecodeError
JsonLoads(text) ==
    IF Len(text) = 3 /\ IsP(text[1], "{") /\ text[2].k = "j" /\ IsP(text[3], "}")
    THEN [ok |-> TRUE, obj |-> text[2].o]
    ELSE [ok |-> FALSE, obj |-> EmptyObj]

\* The words of a text joined into one string (str of a text without the
\* characters the split removed).
RECURSIVE Join(_)
Join(text) ==
    IF text = <<>> THEN ""
    ELSE IF Head(text).k = "j" THEN "json" \o Join(Tail(text))
    ELSE Head(text).v \o Join(Tail(text))

-----------------------------------------------------------------------------
(* BaseAgent: model call, response parser, capability invoker *)

max_iterations == 5
HistoryWindow == 10

Workers == {"researcher", "analyst", "writer", "coder"}
AllAgents == Workers \cup {"planner"}

\* get_available_tools of each agent class (the names)
get_available_tools(agent) ==
    CASE agent = "planner" -> {}
      [] agent = "researcher" -> {"web_search"}
      [] agent = "analyst" -> {"analyze_data", "create_summary"}
      [] agent = "writer" -> {"save_file", "read_file"}
      [] agent = "coder" -> {"execute_code", "save_file"}

\* get_system_prompt
get_system_prompt(agent) == <<W("system prompt of " \o agent)>>

\* A context (a dict) is the sequence of its items in insertion order; None
\* and {} are both <<>>, the code treats them alike (if context).
NoContext == <<>>
Item(key, value) == [key |-> key, value |-> value]

\* The content of a message: the text, and the context serialized after it
\* (user_message + "\n\nContext:\n" + json.dumps(context)), if any.
Content(text, context) == [text |-> text, context |-> context]
Msg(role, content) == [role |-> role, content |-> content]

\* call_llm: the model's content, or the inline error string when
\* ollama.chat raises
LLMError(text) == <<W("Error calling LLM:"), P(" ")>> \o text
call_llm(outcome) == IF outcome.ok THEN outcome.text ELSE LLMError(outcome.text)

NoCall == [some |-> FALSE, tool |-> NoKey, arguments |-> NoKey]
Call(tool, arguments) == [some |-> TRUE, tool |-> tool, arguments |-> arguments]

\* text.split("(")[0].strip()
BeforeParen(text) == Strip(SubSeq(text, 1, Find(text, "(") - 1))
\* text.split("(")[1].split(")")[0]
BetweenParens(text) ==
    LET rest == SubSeq(text, Find(text, "(") + 1, Len(text))
        seg == IF HasChar(rest, "(") THEN SubSeq(rest, 1, Find(rest, "(") - 1) ELSE rest
    IN  IF HasChar(seg, ")") THEN SubSeq(seg, 1, Find(seg, ")") - 1) ELSE seg

\* BaseAgent.parse_tool_call
parse_tool_call(raw) ==
    LET text == Strip(raw)
        braces == text # <<>> /\ IsP(text[1], "{") /\ IsP(text[Len(text)], "}")
        dec == JsonLoads(text)
    IN  IF braces /\ dec.ok /\ dec.obj.tool # NoKey /\ dec.obj.arguments # NoKey
        THEN Call(dec.obj.tool, dec.obj.arguments)
        ELSE IF HasChar(text, "(") /\ HasChar(text, ")")
        THEN Call(JStr(Join(BeforeParen(text))), JMap(Join(BetweenParens(text))))
        ELSE NoCall

\* BaseAgent.execute_tool. behaviour says what the capability does when it is
\* called: "returns" or "raises". A tool name that is a list or a mapping makes
\* the membership test raise TypeError before the try block.
ToolError(msg) == [raised |-> FALSE, text |-> <<P("{"), W("error"), W(msg), P("}")>>]
ToolValue == [raised |-> FALSE, text |-> <<W("result")>>]
ToolRaise == [raised |-> TRUE, text |-> <<W("unhashable type")>>]
execute_tool(agent, tool_name, arguments, behaviour) ==
    IF tool_name.t \in {"list", "map"} THEN ToolRaise
    ELSE IF tool_name.t # "str" \/ tool_name.v \notin get_available_tools(agent)
    THEN ToolError("not found")
    ELSE IF arguments.t # "map" \/ behaviour = "raises" THEN ToolError("raised")
    ELSE ToolValue

\* Whether execute_tool reaches tool_func(**arguments)
InvokesTool(agent, tool_name, arguments) ==
    tool_name.t = "str" /\ tool_name.v \in get_available_tools(agent)

-----------------------------------------------------------------------------
(* BaseAgent.think *)

IdleFrame ==
    [pc |-> "idle", agent |-> "planner", messages |-> <<>>,
     user_message |-> Content(<<>>, NoContext), iteration |-> 0,
     response |-> <<>>, ret |-> <<>>]

ReasoningLimit == <<W("I've reached my reasoning limit.")>>

\* think, lines 104-118: the working messages
ThinkEnter(agent, history, text, context) ==
    LET user_message == Content(text, context)
    IN  [pc |-> "loop", agent |-> agent,
         messages |-> <<Msg("system", Content(get_system_prompt(agent), NoContext))>>
                        \o history \o <<Msg("user", user_message)>>,
         user_message |-> user_message, iteration |-> 0,
         response |-> <<>>, ret |-> <<>>]

\* think, line 123
FrameLLM(f, outcome) == [f EXCEPT !.response = call_llm(outcome), !.pc = "parse"]

\* FrameAct with a slip: an error payload of the tool ends the call, it is
\* returned as the answer.
FrameAct_StopOnError(f, behaviour) ==
    LET tool_call == parse_tool_call(f.response)
        tool_result == execute_tool(f.agent, tool_call.tool, tool_call.arguments, behaviour)
    IN  IF tool_call.some
        THEN IF tool_result.raised
             THEN [f EXCEPT !.pc = "raised", !.ret = tool_result.text]
             ELSE IF tool_result # ToolValue
             THEN [f EXCEPT !.pc = "returned", !.ret = tool_result.text]
             ELSE [f EXCEPT !.pc = "loop", !.iteration = @ + 1,
                     !.messages = @ \o
                        <<Msg("assistant", Content(f.response, NoContext)),
                          Msg("user", Content(<<W("Tool result:"), P(" ")>> \o tool_result.text,
                                              NoContext))>>]
        ELSE [f EXCEPT !.pc = "returned", !.ret = f.response]

\* think, lines 126-150 without the history update
FrameAct(f, behaviour) ==
    LET tool_call == parse_tool_call(f.response)
        tool_result == execute_tool(f.agent, tool_call.tool, tool_call.arguments, behaviour)
    IN  IF tool_call.some
        THEN IF tool_result.raised
             THEN [f EXCEPT !.pc = "raised", !.ret = tool_result.text]
             ELSE [f EXCEPT !.pc = "loop", !.iteration = @ + 1,
                     !.messages = @ \o
                        <<Msg("assistant", Content(f.response, NoContext)),
                          Msg("user", Content(<<W("Tool result:"), P(" ")>> \o tool_result.text,
                                              NoContext))>>]
        ELSE [f EXCEPT !.pc = "returned", !.ret = f.response]

\* think, line 153
FrameLimit(f) == [f EXCEPT !.pc = "limit", !.ret = ReasoningLimit]

\* think, lines 143-148
LastN(s, n) == IF Len(s) > n THEN SubSeq(s, Len(s) - n + 1, Len(s)) ELSE s
\* Variants of CommitHistory with a plausible slip: no window, and only the
\* reply committed.
CommitHistory_NoWindow(history, user_message, response) ==
    history \o <<Msg("user", user_message),
                 Msg("assistant", Content(response, NoContext))>>
CommitHistory_ReplyOnly(history, user_message, response) ==
    LastN(history \o <<Msg("assistant", Content(response, NoContext))>>, HistoryWindow)
CommitHistory(history, user_message, response) ==
    LastN(history \o <<Msg("user", user_message),
                       Msg("assistant", Content(response, NoContext))>>,
          HistoryWindow)

\* The positions at which no think call is running: before the first call,
\* after a final answer, after the fallback, after an exception.
Done == {"idle", "returned", "limit", "raised"}

\* think is called: agent.think(text, context)
ThinkCall(agent, text, context, limit) ==
    /\ frame.pc \in Done
    /\ think_count < limit
    /\ frame' = ThinkEnter(agent, conversation_history[agent], text, context)
    /\ llm_calls' = 0
    /\ tool_calls' = 0
    /\ think_count' = think_count + 1
    /\ UNCHANGED <<conversation_history, orchVars>>
    /\ UNCHANGED extVars

\* one model call (line 123); outcome is what ollama.chat does
ThinkModelCall(outcomes) ==
    /\ frame.pc = "loop"
    /\ frame.iteration < max_iterations
    /\ \E outcome \in outcomes : frame' = FrameLLM(frame, outcome)
    /\ llm_calls' = llm_calls + 1
    /\ UNCHANGED <<conversation_history, tool_calls, think_count, orchVars>>
    /\ UNCHANGED extVars

\* ThinkToolCall with a slip: a tool that returned an error payload is called
\* again at once, without a model call in between.
ThinkToolCall_Retry(behaviours) ==
    /\ frame.pc = "parse"
    /\ parse_tool_call(frame.response).some
    /\ \E behaviour \in behaviours :
          LET f == FrameAct(frame, behaviour)
              m == f.messages[Len(f.messages)]
          IN  frame' = IF f.pc = "loop" /\ m.content.text[3] = P("{") THEN frame ELSE f
    /\ tool_calls' = tool_calls + 1
    /\ UNCHANGED <<conversation_history, llm_calls, think_count, orchVars>>
    /\ UNCHANGED extVars

\* the reply is a tool call (lines 128-139)
ThinkToolCall(behaviours) ==
    /\ frame.pc = "parse"
    /\ parse_tool_call(frame.response).some
    /\ \E behaviour \in behaviours : frame' = FrameAct(frame, behaviour)
    /\ tool_calls' = tool_calls + 1
    /\ UNCHANGED <<conversation_history, llm_calls, think_count, orchVars>>
    /\ UNCHANGED extVars

\* the reply is the final response (lines 140-150)
ThinkFinal ==
    /\ frame.pc = "parse"
    /\ ~parse_tool_call(frame.response).some
    /\ frame' = FrameAct(frame, "returns")
    /\ conversation_history' =
          [conversation_history EXCEPT ![frame.agent] =
              CommitHistory(@, frame.user_message, frame.response)]
    /\ UNCHANGED <<llm_calls, tool_calls, think_count, orchVars>>
    /\ UNCHANGED extVars

\* max iterations reached (line 153)
ThinkLimit ==
    /\ frame.pc = "loop"
    /\ frame.iteration >= max_iterations
    /\ frame' = FrameLimit(frame)
    /\ UNCHANGED <<conversation_history, llm_calls, tool_calls, think_count, orchVars>>
    /\ UNCHANGED extVars

\* BaseAgent.reset_conversation
reset_conversation(agent) ==
    /\ frame.pc \in Done
    /\ conversation_history' = [conversation_history EXCEPT ![agent] = <<>>]
    /\ UNCHANGED <<frame, llm_calls, tool_calls, think_count, orchVars>>
    /\ UNCHANGED extVars

-----------------------------------------------------------------------------
(* Inputs of the reasoning loop *)

Ok(text) == [ok |-> TRUE, text |-> text]
Fails(text) == [ok |-> FALSE, text |-> text]

Answer == <<W("facts")>>
JsonCall(tool) == <<P("{"), J(Obj(tool, JMap("args"))), P("}")>>
FuncCall == <<W("lookup"), P("("), W("query"), P("="), W("x"), P(")")>>

\* str(e) of an ollama.ResponseError: the error and the status code
StatusError == <<W("model not found"), P(" "), P("("), W("status code: 404"), P(")")>>

\* What the model does in a worker's think: a final answer, a call of a
\* registered tool, a call whose tool is a JSON list, a call in the
\* name(key=value) form of a tool that is not registered, or a failure
\* (the backend is unreachable, or it answers with an error status).
WorkerOutcomes ==
    {Ok(Answer), Ok(JsonCall(JStr("web_search"))), Ok(JsonCall(JList("x"))),
     Ok(FuncCall), Fails(<<W("connection refused")>>), Fails(StatusError)}
ToolBehaviours == {"returns", "raises"}

\* A model that answers or calls a registered tool that returns.
PlainOutcomes == {Ok(Answer), Ok(<<W("insight")>>), Ok(JsonCall(JStr("web_search")))}

MaxHistoryCalls == 7

ThinkAgents == {"researcher"}
Questions == {<<W("question")>>}
Contexts == {NoContext, <<Item("user", <<W("u")>>)>>}

NoReturn ==
    [status |-> "none", results |-> <<>>, final_output |-> <<>>, error |-> <<>>,
     logs |-> <<>>]

\* The other components before anything is constructed or called
NoInvocation == [pc |-> "idle"]
NoParse == [pc |-> "idle"]
NoMemory == [pc |-> "idle"]
NoResponse == [status |-> "none"]

\* The agents and the orchestrator after construction
AgentsInit ==
    /\ conversation_history = [a \in AllAgents |-> <<>>]
    /\ frame = IdleFrame
    /\ llm_calls = 0
    /\ tool_calls = 0
    /\ think_count = 0
    /\ opc = "idle"
    /\ plan = EmptyObj
    /\ step_index = 0
    /\ results = <<>>
    /\ user_query = <<>>
    /\ run_context = NoContext
    /\ unmet = <<>>
    /\ invoked = {}
    /\ returned = NoReturn
    /\ execution_log = <<>>
    /\ run_count = 0

ThinkInit ==
    /\ AgentsInit
    /\ invocation = NoInvocation
    /\ parsed = NoParse
    /\ memory = NoMemory
    /\ tasks = {}
    /\ task_objects = <<>>
    /\ coroutines = <<>>
    /\ api_response = NoResponse

ThinkNext(outcomes, behaviours, limit) ==
    \/ \E agent \in ThinkAgents, text \in Questions, context \in Contexts :
          ThinkCall(agent, text, context, limit)
    \/ ThinkModelCall(outcomes)
    \/ ThinkToolCall(behaviours)
    \/ ThinkFinal
    \/ ThinkLimit
    \/ \E agent \in ThinkAgents : reset_conversation(agent)

NextThink == ThinkNext(WorkerOutcomes, ToolBehaviours, MaxThinkCalls)
NextHistory == ThinkNext(PlainOutcomes, {"returns"}, MaxHistoryCalls)

\* The reasoning loop of one worker under every model and tool behaviour.
SpecThink == ThinkInit /\ [][NextThink]_vars
\* Many think calls on one worker, with a model that answers or calls a tool.
SpecHistory == ThinkInit /\ [][NextHistory]_vars

-----------------------------------------------------------------------------
(* A whole think call, for the callers of think *)

\* One iteration of the loop from its head: the model call and what follows it.
Iterate(f, outcomes, behaviours) ==
    {FrameAct(FrameLLM(f, outcome), behaviour) :
        outcome \in outcomes, behaviour \in behaviours}

\* The frames at the head of the loop that a think call at the head f reaches.
RECURSIVE LoopHeads(_, _, _)
LoopHeads(f, outcomes, behaviours) ==
    IF f.iteration >= max_iterations THEN {f}
    ELSE {f} \cup UNION {LoopHeads(g, outcomes, behaviours) :
                            g \in {h \in Iterate(f, outcomes, behaviours) : h.pc = "loop"}}

\* How a think call of the agent can end: with a final answer ("returned"),
\* with the fallback ("limit") or with an exception ("raised"), and the value.
\* The loop never reads the messages it builds, it only hands them to the
\* model, so the ends do not depend on the history, the text or the context.
End(f) == [pc |-> f.pc, ret |-> f.ret]
ThinkEnds(agent, outcomes, behaviours) ==
    LET heads == LoopHeads(ThinkEnter(agent, <<>>, <<>>, NoContext), outcomes, behaviours)
        ends == {End(FrameAct(FrameLLM(f, outcome), behaviour)) :
                    f \in {h \in heads : h.iteration < max_iterations},
                    outcome \in outcomes, behaviour \in behaviours}
    IN  {end \in ends : end.pc \in Done}
        \cup {End(FrameLimit(f)) : f \in {h \in heads : h.iteration >= max_iterations}}

\* agent.think(text, context) as one step of its caller: the history after it
think(history, text, context, end) ==
    IF end.pc = "returned"
    THEN CommitHistory(history, Content(text, context), end.ret)
    ELSE history

-----------------------------------------------------------------------------
(* PlannerAgent.create_plan *)

Step(id, agent, action, dependencies) ==
    [id |-> id, agent |-> agent, action |-> action, dependencies |-> dependencies]
PlanObj(steps) ==
    [tool |-> NoKey, arguments |-> NoKey, hasSteps |-> TRUE, steps |-> steps,
     hasError |-> FALSE]

\* create_plan, lines 59-69
PlanPrompt(task) == <<W("Create a detailed execution plan for this task:")>> \o task

\* create_plan, lines 85-96
FallbackPlan(task) == PlanObj(<<Step(1, "researcher", task, <<>>)>>)
\* create_plan, lines 98-102
FailedPlan ==
    [tool |-> NoKey, arguments |-> NoKey, hasSteps |-> TRUE, steps |-> <<>>,
     hasError |-> TRUE]

\* create_plan, lines 75-102: the plan decoded from the planner's response
DecodePlan(response, task) ==
    LET start == Find(response, "{")
        end == RFind(response, "}")
        dec == JsonLoads(SubSeq(response, start, end))
    IN  IF start >= 1 /\ end > start
        THEN IF dec.ok THEN dec.obj ELSE FallbackPlan(task)
        ELSE FailedPlan

-----------------------------------------------------------------------------
(* Orchestrator *)

\* self.agents
agents == Workers

IdStr(n) == CASE n = 1 -> "1" [] n = 2 -> "2" [] n = 3 -> "3" [] OTHER -> "n"
NoneText == <<[k |-> "none", v |-> "None"]>>

DepNotMet(dep_id) == <<W("Dependency "), W(IdStr(dep_id)), W(" not met")>>
UnknownAgent(agent_name) == <<W("Unknown agent: "), W(agent_name)>>

\* The entries of results; a key the entry does not have is None.
Failed(error) ==
    [status |-> "failed", output |-> NoneText, error |-> error, agent |-> "None"]
\* Success with a slip: the entry does not hold the output.
Success_NoOutput(output, agent_name) ==
    [status |-> "success", output |-> NoneText, error |-> NoneText, agent |-> agent_name]
Success(output, agent_name) ==
    [status |-> "success", output |-> output, error |-> NoneText, agent |-> agent_name]
Errored(error, agent_name) ==
    [status |-> "error", output |-> NoneText, error |-> error, agent |-> agent_name]

\* d[key] = value on a dict keyed by step id
Put(d, key, value) ==
    [k \in (DOMAIN d) \cup {key} |-> IF k = key THEN value ELSE d[k]]

\* lines 65-72: the loop over the dependencies. Its continue belongs to this
\* loop, so the loop goes on to the next dependency and the step is processed
\* further after it.
RECURSIVE CheckDependencies(_, _, _)
CheckDependencies(res, step_id, dependencies) ==
    IF dependencies = <<>> THEN res
    ELSE CheckDependencies(
            IF Head(dependencies) \notin DOMAIN res
            THEN Put(res, step_id, Failed(DepNotMet(Head(dependencies))))
            ELSE res,
            step_id, Tail(dependencies))
\* the dependency ids for which line 66 holds
RECURSIVE MissingDependencies(_, _, _)
MissingDependencies(res, step_id, dependencies) ==
    IF dependencies = <<>> THEN <<>>
    ELSE IF Head(dependencies) \notin DOMAIN res
    THEN <<Head(dependencies)>> \o
         MissingDependencies(Put(res, step_id, Failed(DepNotMet(Head(dependencies)))),
                             step_id, Tail(dependencies))
    ELSE MissingDependencies(res, step_id, Tail(dependencies))

\* context[key] = value on a context
SetItem(context, key, value) ==
    IF \E i \in 1..Len(context) : context[i].key = key
    THEN [i \in 1..Len(context) |->
            IF context[i].key = key THEN Item(key, value) ELSE context[i]]
    ELSE Append(context, Item(key, value))

StepKey(dep_id) == "step_" \o IdStr(dep_id) \o "_result"

\* lines 85-87
RECURSIVE StepContext(_, _, _)
StepContext(context, res, dependencies) ==
    IF dependencies = <<>> THEN context
    ELSE StepContext(
            SetItem(context, StepKey(Head(dependencies)),
                    IF Head(dependencies) \in DOMAIN res
                    THEN res[Head(dependencies)].output ELSE NoneText),
            res, Tail(dependencies))

\* sorted(results.keys())
RECURSIVE Sorted(_)
Sorted(S) ==
    IF S = {} THEN <<>>
    ELSE LET m == CHOOSE x \in S : \A y \in S : x <= y
         IN  <<m>> \o Sorted(S \ {m})

\* SuccessOutputs with a slip: no test of the status, an entry without an
\* output contributes its error.
RECURSIVE SuccessOutputs_AnyStatus(_, _)
SuccessOutputs_AnyStatus(res, ids) ==
    IF ids = <<>> THEN <<>>
    ELSE (IF res[Head(ids)].status = "success"
          THEN <<res[Head(ids)].output>> ELSE <<res[Head(ids)].error>>)
         \o SuccessOutputs_AnyStatus(res, Tail(ids))

\* lines 137-141
RECURSIVE SuccessOutputs(_, _)
SuccessOutputs(res, ids) ==
    IF ids = <<>> THEN <<>>
    ELSE (IF res[Head(ids)].status = "success" THEN <<res[Head(ids)].output>> ELSE <<>>)
         \o SuccessOutputs(res, Tail(ids))

\* str.title() of the agent names of the plans
Title(name) ==
    CASE name = "researcher" -> "Researcher"
      [] name = "analyst" -> "Analyst"
      [] name = "writer" -> "Writer"
      [] name = "coder" -> "Coder"
      [] name = "ghost" -> "Ghost"
      [] OTHER -> "Agent"

Unable ==
    <<W("I was unable to complete the task successfully. Please check the execution logs for details.")>>

\* lines 151-156
RECURSIVE Sections(_, _, _)
Sections(steps, outputs, i) ==
    IF i > Len(outputs) THEN <<>>
    ELSE <<W("## Step "), W(IdStr(i)), W(": "),
           W(IF i <= Len(steps) THEN Title(steps[i].agent) ELSE "Agent")>>
         \o outputs[i] \o Sections(steps, outputs, i + 1)

\* _synthesize_results with a slip: no case for a single output.
SynthesizeResults_AlwaysHeadings(query, steps, res) ==
    LET outputs == SuccessOutputs(res, Sorted(DOMAIN res))
    IN  IF outputs = <<>> THEN Unable
        ELSE <<W("# Results for: ")>> \o query \o Sections(steps, outputs, 1)

\* Orchestrator._synthesize_results
_synthesize_results(query, steps, res) ==
    LET outputs == SuccessOutputs(res, Sorted(DOMAIN res))
    IN  IF outputs = <<>> THEN Unable
        ELSE IF Len(outputs) = 1 THEN outputs[1]
        ELSE <<W("# Results for: ")>> \o query \o Sections(steps, outputs, 1)

\* plan.get("steps", [])
PlanSteps(p) == IF p.hasSteps THEN p.steps ELSE <<>>

\* The positions at which no process_task call is running.
Stopped == {"idle", "done", "raised"}

Result(status, res, final_output, error, logs) ==
    [status |-> status, results |-> res, final_output |-> final_output,
     error |-> error, logs |-> logs]

\* the position after a step of the plan is finished
AfterStep == IF step_index < Len(PlanSteps(plan)) THEN "check" ELSE "synth"

\* process_task with a slip: every run starts with an empty execution log.
process_task_FreshLog(query, context, ends, from) ==
    /\ opc \in from
    /\ run_count < MaxRuns
    /\ run_count' = run_count + 1
    /\ user_query' = query
    /\ run_context' = context
    /\ unmet' = <<>>
    /\ invoked' = {}
    /\ results' = <<>>
    /\ \E end \in ends :
          /\ conversation_history' =
                [conversation_history EXCEPT !["planner"] =
                    think(@, PlanPrompt(query), context, end)]
          /\ IF end.pc = "raised"
             THEN /\ plan' = EmptyObj
                  /\ step_index' = 0
                  /\ opc' = "raised"
                  /\ returned' = Result("raised", <<>>, <<>>, end.ret, <<>>)
             ELSE LET p == DecodePlan(end.ret, query)
                  IN  /\ plan' = p
                      /\ IF p.hasError
                         THEN /\ step_index' = 0
                              /\ opc' = "done"
                              /\ returned' = Result("error", <<>>, <<>>,
                                                    <<W("Failed to parse plan from response")>>,
                                                    <<>>)
                         ELSE /\ step_index' = 1
                              /\ opc' = IF PlanSteps(p) = <<>> THEN "synth" ELSE "check"
                              /\ returned' = NoReturn
    /\ execution_log' = <<>>
    /\ UNCHANGED <<frame, llm_calls, tool_calls, think_count>>
    /\ UNCHANGED extVars

\* process_task is called; lines 38-54. ends is how the planner's think can
\* end, from the positions at which the call is made. An exception of
\* create_plan leaves process_task.
process_task(query, context, ends, from) ==
    /\ opc \in from
    /\ run_count < MaxRuns
    /\ run_count' = run_count + 1
    /\ user_query' = query
    /\ run_context' = context
    /\ unmet' = <<>>
    /\ invoked' = {}
    /\ results' = <<>>
    /\ \E end \in ends :
          /\ conversation_history' =
                [conversation_history EXCEPT !["planner"] =
                    think(@, PlanPrompt(query), context, end)]
          /\ IF end.pc = "raised"
             THEN /\ plan' = EmptyObj
                  /\ step_index' = 0
                  /\ opc' = "raised"
                  /\ returned' = Result("raised", <<>>, <<>>, end.ret, <<>>)
             ELSE LET p == DecodePlan(end.ret, query)
                  IN  /\ plan' = p
                      /\ IF p.hasError
                         THEN /\ step_index' = 0
                              /\ opc' = "done"
                              /\ returned' = Result("error", <<>>, <<>>,
                                                    <<W("Failed to parse plan from response")>>,
                                                    execution_log)
                         ELSE /\ step_index' = 1
                              /\ opc' = IF PlanSteps(p) = <<>> THEN "synth" ELSE "check"
                              /\ returned' = NoReturn
    /\ UNCHANGED <<frame, llm_calls, tool_calls, think_count, execution_log>>
    /\ UNCHANGED extVars

\* lines 56-72: the step is read and its dependencies are checked
CheckStep ==
    /\ opc = "check"
    /\ LET step == PlanSteps(plan)[step_index]
       IN  /\ results' = CheckDependencies(results, step.id, step.dependencies)
           /\ unmet' = Append(unmet,
                              MissingDependencies(results, step.id, step.dependencies))
    /\ opc' = "agent"
    /\ UNCHANGED <<thinkVars, plan, step_index, user_query, run_context, invoked,
                   returned, execution_log, run_count>>
    /\ UNCHANGED extVars

\* GetAgent with a slip: the step of an unknown agent is skipped unrecorded.
GetAgent_NoRecord ==
    /\ opc = "agent"
    /\ LET step == PlanSteps(plan)[step_index]
       IN  IF step.agent \notin agents
           THEN /\ step_index' = step_index + 1
                /\ opc' = AfterStep
                /\ UNCHANGED results
           ELSE /\ opc' = "think"
                /\ UNCHANGED <<results, step_index>>
    /\ UNCHANGED <<thinkVars, plan, user_query, run_context, unmet, invoked,
                   returned, execution_log, run_count>>
    /\ UNCHANGED extVars

\* lines 75-82: the agent is looked up
GetAgent ==
    /\ opc = "agent"
    /\ LET step == PlanSteps(plan)[step_index]
       IN  IF step.agent \notin agents
           THEN /\ results' = Put(results, step.id, Failed(UnknownAgent(step.agent)))
                /\ step_index' = step_index + 1
                /\ opc' = AfterStep
           ELSE /\ opc' = "think"
                /\ UNCHANGED <<results, step_index>>
    /\ UNCHANGED <<thinkVars, plan, user_query, run_context, unmet, invoked,
                   returned, execution_log, run_count>>
    /\ UNCHANGED extVars

LogEntry(step, output) ==
    [step_id |-> step.id, agent |-> step.agent, action |-> step.action,
     output |-> output]

\* ExecuteStep with a slip: no except clause, an exception of think leaves
\* process_task.
ExecuteStep_Abort(ends) ==
    /\ opc = "think"
    /\ LET step == PlanSteps(plan)[step_index]
           step_context == StepContext(run_context, results, step.dependencies)
       IN  \E end \in ends[step.agent] :
              /\ conversation_history' =
                    [conversation_history EXCEPT ![step.agent] =
                        think(@, step.action, step_context, end)]
              /\ IF end.pc = "raised"
                 THEN /\ opc' = "raised"
                      /\ UNCHANGED <<results, execution_log, step_index>>
                 ELSE /\ results' = Put(results, step.id, Success(end.ret, step.agent))
                      /\ execution_log' = Append(execution_log, LogEntry(step, end.ret))
                      /\ step_index' = step_index + 1
                      /\ opc' = AfterStep
    /\ invoked' = invoked \cup {step_index}
    /\ UNCHANGED <<frame, llm_calls, tool_calls, think_count, plan, user_query,
                   run_context, unmet, returned, run_count>>
    /\ UNCHANGED extVars

\* ExecuteStep with a slip: the except clause records nothing.
ExecuteStep_DropError(ends) ==
    /\ opc = "think"
    /\ LET step == PlanSteps(plan)[step_index]
           step_context == StepContext(run_context, results, step.dependencies)
       IN  \E end \in ends[step.agent] :
              /\ conversation_history' =
                    [conversation_history EXCEPT ![step.agent] =
                        think(@, step.action, step_context, end)]
              /\ IF end.pc = "raised"
                 THEN UNCHANGED <<results, execution_log>>
                 ELSE /\ results' = Put(results, step.id, Success(end.ret, step.agent))
                      /\ execution_log' = Append(execution_log, LogEntry(step, end.ret))
    /\ invoked' = invoked \cup {step_index}
    /\ step_index' = step_index + 1
    /\ opc' = AfterStep
    /\ UNCHANGED <<frame, llm_calls, tool_calls, think_count, plan, user_query,
                   run_context, unmet, returned, run_count>>
    /\ UNCHANGED extVars

\* ExecuteStep with a slip: the step context is the run-level context object
\* itself, so the keys of the step stay in it.
ExecuteStep_SharedContext(ends) ==
    /\ opc = "think"
    /\ LET step == PlanSteps(plan)[step_index]
           step_context == StepContext(run_context, results, step.dependencies)
       IN  /\ run_context' = step_context
           /\ \E end \in ends[step.agent] :
              /\ conversation_history' =
                    [conversation_history EXCEPT ![step.agent] =
                        think(@, step.action, step_context, end)]
              /\ IF end.pc = "raised"
                 THEN /\ results' = Put(results, step.id, Errored(end.ret, step.agent))
                      /\ UNCHANGED execution_log
                 ELSE /\ results' = Put(results, step.id, Success(end.ret, step.agent))
                      /\ execution_log' = Append(execution_log, LogEntry(step, end.ret))
    /\ invoked' = invoked \cup {step_index}
    /\ step_index' = step_index + 1
    /\ opc' = AfterStep
    /\ UNCHANGED <<frame, llm_calls, tool_calls, think_count, plan, user_query,
                   unmet, returned, run_count>>
    /\ UNCHANGED extVars

\* ExecuteStep with a slip: the agents share one conversation history.
ExecuteStep_SharedHistory(ends) ==
    /\ opc = "think"
    /\ LET step == PlanSteps(plan)[step_index]
           step_context == StepContext(run_context, results, step.dependencies)
       IN  \E end \in ends[step.agent] :
              /\ conversation_history' =
                    [a \in AllAgents |->
                        think(conversation_history[step.agent], step.action,
                              step_context, end)]
              /\ IF end.pc = "raised"
                 THEN /\ results' = Put(results, step.id, Errored(end.ret, step.agent))
                      /\ UNCHANGED execution_log
                 ELSE /\ results' = Put(results, step.id, Success(end.ret, step.agent))
                      /\ execution_log' = Append(execution_log, LogEntry(step, end.ret))
    /\ invoked' = invoked \cup {step_index}
    /\ step_index' = step_index + 1
    /\ opc' = AfterStep
    /\ UNCHANGED <<frame, llm_calls, tool_calls, think_count, plan, user_query,
                   run_context, unmet, returned, run_count>>
    /\ UNCHANGED extVars

\* lines 85-113: the step is executed. ends maps a worker to how its think
\* can end.
ExecuteStep(ends) ==
    /\ opc = "think"
    /\ LET step == PlanSteps(plan)[step_index]
           step_context == StepContext(run_context, results, step.dependencies)
       IN  \E end \in ends[step.agent] :
              /\ conversation_history' =
                    [conversation_history EXCEPT ![step.agent] =
                        think(@, step.action, step_context, end)]
              /\ IF end.pc = "raised"
                 THEN /\ results' = Put(results, step.id, Errored(end.ret, step.agent))
                      /\ UNCHANGED execution_log
                 ELSE /\ results' = Put(results, step.id, Success(end.ret, step.agent))
                      /\ execution_log' = Append(execution_log, LogEntry(step, end.ret))
    /\ invoked' = invoked \cup {step_index}
    /\ step_index' = step_index + 1
    /\ opc' = AfterStep
    /\ UNCHANGED <<frame, llm_calls, tool_calls, think_count, plan, user_query,
                   run_context, unmet, returned, run_count>>
    /\ UNCHANGED extVars

\* Synthesize with a slip: a run without a successful step returns error.
Synthesize_ByResults ==
    /\ opc = "synth"
    /\ returned' = Result(IF \E k \in DOMAIN results : results[k].status = "success"
                          THEN "success" ELSE "error",
                          results,
                          _synthesize_results(user_query, PlanSteps(plan), results),
                          <<>>, execution_log)
    /\ opc' = "done"
    /\ UNCHANGED <<thinkVars, plan, step_index, results, user_query, run_context,
                   unmet, invoked, execution_log, run_count>>
    /\ UNCHANGED extVars

\* lines 115-132: synthesis and return
Synthesize ==
    /\ opc = "synth"
    /\ returned' = Result("success", results,
                          _synthesize_results(user_query, PlanSteps(plan), results),
                          <<>>, execution_log)
    /\ opc' = "done"
    /\ UNCHANGED <<thinkVars, plan, step_index, results, user_query, run_context,
                   unmet, invoked, execution_log, run_count>>
    /\ UNCHANGED extVars

\* Orchestrator.reset
reset ==
    /\ opc \in Stopped
    /\ conversation_history' = [a \in AllAgents |-> <<>>]
    /\ execution_log' = <<>>
    /\ UNCHANGED <<frame, llm_calls, tool_calls, think_count, opc, plan, step_index,
                   results, user_query, run_context, unmet, invoked, returned,
                   run_count>>
    /\ UNCHANGED extVars

-----------------------------------------------------------------------------
(* Inputs of the orchestrator *)

\* The steps of the plans: an id, an agent that is registered or not, and up
\* to two dependencies on other ids (a step does not depend on itself).
PlanIds == {1, 2, 3}
PlanAgents == {"researcher", "analyst", "ghost"}
PlanActions == {<<W("act")>>}
PlanDependencies(id) ==
    LET others == PlanIds \ {id}
    IN  {<<>>} \cup {<<d>> : d \in others}
               \cup {dd \in others \X others : dd[1] < dd[2]}
PlanStepSet ==
    UNION {{Step(id, agent, action, dependencies) :
               agent \in PlanAgents, action \in PlanActions,
               dependencies \in PlanDependencies(id)} : id \in PlanIds}
Plans == UNION {[1..n -> PlanStepSet] : n \in 0..MaxSteps}

PlanText(steps) == <<W("Here is the plan:"), P(" "), P("{"), J(PlanObj(steps)), P("}")>>

\* What the model does in the planner's think: a plan, prose without a plan,
\* braces around text that is no JSON, a tool call, or a failure.
PlannerOutcomes ==
    {Ok(PlanText(steps)) : steps \in Plans}
    \cup {Ok(Answer), Ok(<<P("{"), W("not json"), P("}")>>), Ok(FuncCall),
          Ok(JsonCall(JList("x"))), Fails(<<W("connection refused")>>)}

\* What the model does in the think of a step's worker: a final answer, a
\* call of a tool, or a call whose tool is a JSON list.
StepOutcomes ==
    {Ok(Answer), Ok(JsonCall(JStr("web_search"))), Ok(JsonCall(JList("x")))}

PlannerEnds == ThinkEnds("planner", PlannerOutcomes, ToolBehaviours)
WorkerEnds == [a \in Workers |-> ThinkEnds(a, StepOutcomes, ToolBehaviours)]

Queries == {<<W("task")>>}

Init == ThinkInit

Next ==
    \/ \E query \in Queries, context \in Contexts :
          process_task(query, context, PlannerEnds, {"idle"})
    \/ CheckStep
    \/ GetAgent
    \/ ExecuteStep(WorkerEnds)
    \/ Synthesize

\* One call of process_task on a new Orchestrator, under every plan of the
\* bounded shape.
Spec == Init /\ [][Next]_vars

\* Plans of up to MaxSynthSteps steps without dependencies, run with workers
\* whose model gives one of two answers or makes think raise: the runs whose
\* results mix several successes with failed and error entries.
MaxSynthSteps == 3
SynthStepSet ==
    {Step(id, agent, action, <<>>) :
        id \in PlanIds, agent \in PlanAgents, action \in PlanActions}
SynthPlans == UNION {[1..n -> SynthStepSet] : n \in 0..MaxSynthSteps}
SynthPlannerOutcomes == {Ok(PlanText(steps)) : steps \in SynthPlans}
SynthStepOutcomes == {Ok(Answer), Ok(<<W("insight")>>), Ok(JsonCall(JList("x")))}
SynthPlannerEnds == ThinkEnds("planner", SynthPlannerOutcomes, ToolBehaviours)
SynthWorkerEnds == [a \in Workers |-> ThinkEnds(a, SynthStepOutcomes, ToolBehaviours)]

NextSynth ==
    \/ \E query \in Queries : process_task(query, NoContext, SynthPlannerEnds, {"idle"})
    \/ CheckStep
    \/ GetAgent
    \/ ExecuteStep(SynthWorkerEnds)
    \/ Synthesize

\* One call of process_task under every plan of up to MaxSynthSteps
\* independent steps.
SpecSynth == Init /\ [][NextSynth]_vars

-----------------------------------------------------------------------------
(* The plan executor: claims *)

Steps == PlanSteps(plan)
DistinctIds == \A i, j \in 1..Len(Steps) : i # j => Steps[i].id # Steps[j].id
\* process_task has returned its result for a plan without an error key
Completed == opc = "done" /\ returned.status = "success"

\* C1: a step that declares a dependency id which is no key of results when
\* the step is processed has, in the results returned by the run, an entry
\* with status failed and the error 'Dependency d not met'.
C1_UnmetDependencyFailed ==
    Completed =>
        \A i \in 1..Len(Steps) : \A k \in 1..Len(unmet[i]) :
            /\ Steps[i].id \in DOMAIN returned.results
            /\ returned.results[Steps[i].id] = Failed(DepNotMet(unmet[i][k]))

\* C2: a worker's think is called for a step only when every dependency id
\* of the step was a key of results at the dependency check of the step.
C2_ThinkOnlyWhenDependenciesMet ==
    \A i \in invoked : unmet[i] = <<>>

\* C3: for a plan of n steps with pairwise distinct ids and no error key,
\* process_task returns results with exactly n entries, one per step id.
C3_OneEntryPerStep ==
    (Completed /\ DistinctIds) =>
        /\ DOMAIN returned.results = {Steps[i].id : i \in 1..Len(Steps)}
        /\ Cardinality(DOMAIN returned.results) = Len(Steps)

\* A run of two steps ends with an error entry and a failed entry.
C3_Witness ==
    /\ Completed
    /\ DistinctIds
    /\ Len(Steps) = 2
    /\ returned.results[Steps[1].id].status = "error"
    /\ returned.results[Steps[2].id].status = "failed"

\* C4: during a run over a plan with distinct step ids, an entry of results
\* that is set is not changed by any later step of the run.
C4_EntryWrittenOnce ==
    [][(opc \notin Stopped /\ DistinctIds) =>
          \A k \in DOMAIN results :
              k \in DOMAIN results' /\ results'[k] = results[k]]_vars

\* C5: a step with a dependency on an earlier step that is recorded failed
\* or error is itself recorded failed.
C5_FailedDependencyPropagates ==
    (Completed /\ DistinctIds) =>
        \A i \in 1..Len(Steps) : \A j \in 1..(i - 1) :
            (/\ \E k \in 1..Len(Steps[i].dependencies) :
                    Steps[i].dependencies[k] = Steps[j].id
             /\ returned.results[Steps[j].id].status \in {"failed", "error"})
            => returned.results[Steps[i].id].status = "failed"

\* C6: an entry with status error holds the message and the agent of the
\* step whose worker raised; an exception of a worker never leaves
\* process_task (only create_plan's does, before any step), the steps are
\* processed one after the other in list order, and the run that returns has
\* processed every step of the plan.
C6_WorkerExceptionRecorded ==
    /\ \A k \in DOMAIN results :
          results[k].status = "error" =>
              /\ results[k].agent \in agents
              /\ results[k].error # NoneText
              /\ results[k].output = NoneText
    /\ opc = "raised" => step_index = 0 /\ invoked = {}
    /\ opc = "check" => Len(unmet) = step_index - 1
    /\ opc \in {"agent", "think"} => Len(unmet) = step_index
    /\ \A i \in invoked : i <= Len(unmet)
    /\ Completed => Len(unmet) = Len(Steps)

\* The worker of the first of two steps raised and the second step succeeded.
C6_Witness ==
    /\ Completed
    /\ DistinctIds
    /\ Len(Steps) = 2
    /\ returned.results[Steps[1].id] =
          Errored(<<W("unhashable type")>>, Steps[1].agent)
    /\ returned.results[Steps[2].id].status = "success"
    /\ invoked = {1, 2}

\* C7: a step whose agent is not registered and whose dependencies were all
\* met is recorded failed with the 'Unknown agent' error, no worker is called
\* for it, and the run goes on to the end of the plan.
C7_UnknownAgentFailed ==
    /\ \A i \in invoked : Steps[i].agent \in agents
    /\ (Completed /\ DistinctIds) =>
          /\ Len(unmet) = Len(Steps)
          /\ \A i \in 1..Len(Steps) :
                (Steps[i].agent \notin agents /\ unmet[i] = <<>>) =>
                    /\ Steps[i].id \in DOMAIN returned.results
                    /\ returned.results[Steps[i].id] = Failed(UnknownAgent(Steps[i].agent))

\* The first of two steps names an unknown agent, the second was executed.
C7_Witness ==
    /\ Completed
    /\ DistinctIds
    /\ Len(Steps) = 2
    /\ Steps[1].agent \notin agents
    /\ unmet[1] = <<>>
    /\ invoked = {2}

-----------------------------------------------------------------------------
(* The reasoning loop: claims *)

\* C8: every think call makes at most max_iterations model calls and returns
\* without raising; a call that ends at the iteration limit has made exactly
\* max_iterations model calls and returns the fallback message.
C8_ThinkReturns ==
    /\ llm_calls <= max_iterations
    /\ frame.pc # "raised"
    /\ frame.pc = "limit" => llm_calls = max_iterations /\ frame.ret = ReasoningLimit

\* C9: the conversation history of a worker never holds more than
\* HistoryWindow records, and a commit onto a full history drops its oldest
\* records: the records that were third to last are now first to eighth.
C9_HistoryBounded ==
    /\ \A a \in AllAgents : Len(conversation_history[a]) <= HistoryWindow
    /\ [][\A a \in AllAgents :
            /\ Len(conversation_history'[a]) <= HistoryWindow
            /\ (/\ Len(conversation_history[a]) = HistoryWindow
                /\ conversation_history'[a] # conversation_history[a]
                /\ conversation_history'[a] # <<>>)
               => /\ SubSeq(conversation_history'[a], 1, HistoryWindow - 2)
                       = SubSeq(conversation_history[a], 3, HistoryWindow)
                  /\ conversation_history'[a][HistoryWindow - 1]
                       = Msg("user", frame.user_message)
                  /\ conversation_history'[a][HistoryWindow]
                       = Msg("assistant", Content(frame.response, NoContext))]_vars

\* A think call that started on a full history has returned a final answer.
C9_Witness ==
    /\ frame.pc = "returned"
    /\ Len(frame.messages) >= HistoryWindow + 2
    /\ Len(conversation_history[frame.agent]) = HistoryWindow

\* C10: the step of a think call that returns a final answer appends to the
\* history the user record and then the assistant record holding the reply
\* (within the window), and no other step of a running think call changes any
\* history: not a tool round trip, not the iteration-limit fallback.
C10_OnlyFinalPairCommitted ==
    [][frame.pc \notin Done =>
         IF frame.pc = "parse" /\ frame'.pc = "returned"
         THEN conversation_history' =
                 [conversation_history EXCEPT ![frame.agent] =
                     LastN(@ \o <<Msg("user", frame.user_message),
                                  Msg("assistant", Content(frame'.ret, NoContext))>>,
                           HistoryWindow)]
         ELSE conversation_history' = conversation_history]_vars

\* A final answer after four tool round trips.
C10_Witness ==
    /\ frame.pc = "returned"
    /\ tool_calls = max_iterations - 1
    /\ Len(conversation_history[frame.agent]) = 2

\* The reply of call_llm when the model call failed (line 53)
IsLLMError(text) == Len(text) >= 2 /\ text[1] = W("Error calling LLM:")

\* The user message of a Tool result observation (lines 136-139)
Observation(tool_result) ==
    Msg("user", Content(<<W("Tool result:"), P(" ")>> \o tool_result.text, NoContext))

\* C11: the user record that a think call commits on a final answer is the
\* message the caller passed, without the serialized context.
C11_OriginalMessageCommitted ==
    [][(frame.pc = "parse" /\ frame'.pc = "returned") =>
          LET h == conversation_history'[frame.agent]
          IN  /\ Len(h) >= 2
              /\ h[Len(h) - 1] =
                    Msg("user", Content(frame.user_message.text, NoContext))]_vars

\* C12: when the model call failed, the step of think that follows it
\* returns the error string of call_llm as the answer, for every error text:
\* no tool is called and no further model call is made.
C12_ModelFailureReturned ==
    [][(frame.pc = "parse" /\ IsLLMError(frame.response) /\ frame' # frame) =>
          /\ frame'.pc = "returned"
          /\ frame'.ret = frame.response
          /\ tool_calls' = tool_calls]_vars

\* C13: when execute_tool returns (a value or an error payload: the tool is
\* not registered, or it raised), think goes back to the head of the loop
\* with the model's reply and the Tool result message appended to messages,
\* an unregistered tool gives the not-found payload, and at the head of the
\* loop the model is called again as long as iterations remain.
C13_ToolErrorObserved ==
    /\ [](frame.pc = "loop" /\ frame.iteration < max_iterations
            => ENABLED ThinkModelCall(WorkerOutcomes))
    /\ [][LET tool_call == parse_tool_call(frame.response)
          IN  (/\ frame.pc = "parse"
               /\ tool_call.some
               /\ ~execute_tool(frame.agent, tool_call.tool,
                                tool_call.arguments, "raises").raised
               /\ frame' # frame)
              => /\ frame'.pc = "loop"
                 /\ frame'.iteration = frame.iteration + 1
                 /\ llm_calls' = llm_calls
                 /\ \E r \in {ToolValue, ToolError("not found"), ToolError("raised")} :
                       /\ frame'.messages = frame.messages \o
                             <<Msg("assistant", Content(frame.response, NoContext)),
                               Observation(r)>>
                       /\ ~InvokesTool(frame.agent, tool_call.tool, tool_call.arguments)
                             => r = ToolError("not found")]_vars

\* The model was called again after a tool raised and again after a tool was
\* not found.
C13_Witness ==
    /\ frame.pc = "parse"
    /\ llm_calls = 3
    /\ frame.messages[Len(frame.messages) - 2] = Observation(ToolError("raised"))
    /\ frame.messages[Len(frame.messages)] = Observation(ToolError("not found"))

\* C14: in a think call, the k-th call of execute_tool comes after the k-th
\* model call and before the next one: at the head of the loop both counts
\* equal the number of finished iterations, after a model call the model is
\* one ahead, and a call that ended has made at most one tool call per model
\* call.
C14_OneCallPerIteration ==
    /\ tool_calls <= llm_calls
    /\ frame.pc = "loop" => llm_calls = frame.iteration /\ tool_calls = frame.iteration
    /\ frame.pc = "parse" =>
          llm_calls = frame.iteration + 1 /\ tool_calls = frame.iteration
    /\ frame.pc = "returned" => tool_calls = llm_calls - 1
    /\ frame.pc = "raised" => tool_calls = llm_calls
    /\ frame.pc = "limit" => tool_calls = llm_calls

\* A think call ended at the iteration limit after five tool calls.
C14_Witness ==
    /\ frame.pc = "limit"
    /\ llm_calls = max_iterations
    /\ tool_calls = max_iterations

\* C20: execute_tool never raises: for a name that is not registered it
\* returns the not-found payload, and when the tool raises or its arguments
\* cannot be passed it returns the error payload.
C20_InvokerNeverRaises ==
    /\ frame.pc # "raised"
    /\ LET tool_call == parse_tool_call(frame.response)
       IN  (frame.pc = "parse" /\ tool_call.some) =>
              \A behaviour \in ToolBehaviours :
                 LET r == execute_tool(frame.agent, tool_call.tool,
                                       tool_call.arguments, behaviour)
                 IN  /\ ~r.raised
                     /\ ~InvokesTool(frame.agent, tool_call.tool, tool_call.arguments)
                           => r = ToolError("not found")

-----------------------------------------------------------------------------
(* Planning and synthesis: claims *)

\* C15: create_plan never raises, the plan it returns has no error key, and
\* it is the plan decoded from the reply or the single-step fallback plan
\* (id 1, researcher, the task as action, no dependencies).
C15_CreatePlanFallback ==
    opc # "idle" =>
        /\ opc # "raised"
        /\ ~plan.hasError
        /\ \/ plan = FallbackPlan(user_query)
           \/ /\ plan = PlanObj(plan.steps)
              /\ \A i \in DOMAIN plan.steps : plan.steps[i] \in PlanStepSet

\* C16: a call of process_task that has ended has returned (not raised) a
\* result with status success, never an error result, and when no step
\* succeeded its final_output is the fixed explanatory message.
C16_RunCompletes ==
    opc \in Stopped \ {"idle"} =>
        /\ opc = "done"
        /\ returned.status = "success"
        /\ (\A k \in DOMAIN returned.results : returned.results[k].status # "success")
              => returned.final_output = Unable

\* The step ids of the entries with status success
SuccessIds(res) == {k \in DOMAIN res : res[k].status = "success"}

\* C17: the final output of a run is the fixed message when no entry has
\* status success, and it is exactly the output of the successful step when
\* exactly one entry has status success.
C17_NoneOrOneSuccess ==
    Completed =>
        /\ SuccessIds(returned.results) = {} => returned.final_output = Unable
        /\ \A k \in SuccessIds(returned.results) :
              SuccessIds(returned.results) = {k}
                  => returned.final_output = returned.results[k].output

\* One of two steps succeeded and the worker of the other one raised.
C17_Witness ==
    /\ Completed
    /\ DistinctIds
    /\ Len(Steps) = 2
    /\ returned.results[Steps[1].id].status = "error"
    /\ returned.results[Steps[2].id].status = "success"
    /\ returned.final_output = Answer

\* The outputs of the successful entries in ascending order of the step ids
AscendingOutputs(res) ==
    LET ids == Sorted(SuccessIds(res))
    IN  [i \in 1..Len(ids) |-> res[ids[i]].output]
\* The workers of the successful entries in ascending order of the step ids
AscendingWorkers(res) ==
    LET ids == Sorted(SuccessIds(res))
    IN  [i \in 1..Len(ids) |-> res[ids[i]].agent]

\* text is, for each of the outputs in turn, a heading of four tokens
\* followed by the output, and nothing else.
RECURSIVE OutputsUnderHeadings(_, _)
OutputsUnderHeadings(text, outputs) ==
    IF outputs = <<>> THEN text = <<>>
    ELSE /\ Len(text) >= 4 + Len(Head(outputs))
         /\ text[1] = W("## Step ")
         /\ SubSeq(text, 5, 4 + Len(Head(outputs))) = Head(outputs)
         /\ OutputsUnderHeadings(SubSeq(text, 5 + Len(Head(outputs)), Len(text)),
                                 Tail(outputs))

\* The worker names of the headings of such a text
RECURSIVE HeadingWorkers(_, _)
HeadingWorkers(text, outputs) ==
    IF outputs = <<>> \/ Len(text) < 4 THEN <<>>
    ELSE <<text[4].v>> \o
         HeadingWorkers(SubSeq(text, 5 + Len(Head(outputs)), Len(text)), Tail(outputs))

\* The final output of a run after its first line '# Results for: query'
Body == SubSeq(returned.final_output, 2 + Len(user_query), Len(returned.final_output))

C19_HeadingNamesWorker ==
    (Completed /\ DistinctIds /\ Cardinality(SuccessIds(returned.results)) >= 2) =>
        HeadingWorkers(Body, AscendingOutputs(returned.results))
           = [i \in 1..Cardinality(SuccessIds(returned.results)) |->
                 Title(AscendingWorkers(returned.results)[i])]

-----------------------------------------------------------------------------
(* The capability invokers: BaseAgent.execute_tool, SimpleAgent.execute_tool *)
(* (simple-agent.py and simple-server.py), execute_tool_with_retry          *)

\* The value of an argument: an integer, or a string of characters
IntVal(n) == [t |-> "int", v |-> n]
StrVal(chars) == [t |-> "str", v |-> chars]

Digits == <<"0", "1", "2", "3", "4", "5", "6", "7", "8", "9">>
IsDigit(c) == \E d \in 1..10 : Digits[d] = c
DigitValue(c) == (CHOOSE d \in 1..10 : Digits[d] = c) - 1

\* int(chars) of a string: the number it writes in base 10, or ValueError
RECURSIVE Decimal(_)
Decimal(chars) ==
    IF chars = <<>> THEN 0
    ELSE 10 * Decimal(SubSeq(chars, 1, Len(chars) - 1)) + DigitValue(chars[Len(chars)])
IsDecimal(chars) == chars # <<>> /\ \A i \in 1..Len(chars) : IsDigit(chars[i])

\* What str(e).lower() of an exception holds of the words _classify_error
\* looks for; the exception of int() on the strings of the inputs holds none.
NoWords == {}
Raised(words) == [raised |-> TRUE, words |-> words, value |-> IntVal(0)]
Returned(value) == [raised |-> FALSE, words |-> NoWords, value |-> value]

\* The conversion of an argument to the int its parameter declares
\* (simple-server.py lines 189-194, enhanced-agent.py lines 237-238)
ConvertInt(value) ==
    IF value.t = "int" THEN Returned(value)
    ELSE IF IsDecimal(value.v) THEN Returned(IntVal(Decimal(value.v)))
    ELSE Raised(NoWords)

\* What an invoker prepares as the argument of tool_func: base_agent.py and
\* simple-agent.py pass the arguments as they are, simple-server.py and
\* enhanced-agent.py convert them first.
Converting == {"server", "enhanced"}
PrepareArgument(invoker, value) ==
    IF invoker \in Converting THEN ConvertInt(value) ELSE Returned(value)

\* EnhancedAgent._classify_error
_classify_error(words) ==
    IF words \cap {"timeout", "connection"} # {} THEN "NETWORK_ERROR"
    ELSE IF words \cap {"permission", "access"} # {} THEN "PERMISSION_ERROR"
    ELSE IF words \cap {"argument", "parameter"} # {} THEN "INVALID_INPUT"
    ELSE IF words \cap {"not found", "does not exist"} # {} THEN "NOT_FOUND"
    ELSE "LOGIC_ERROR"

\* _should_retry with a slip: every class of error is retried.
ShouldRetry_Always(error_type) == error_type = error_type

\* EnhancedAgent._should_retry
_should_retry(error_type) == error_type \in {"NETWORK_ERROR", "TIMEOUT_ERROR"}

RECURSIVE Pow2(_)
Pow2(n) == IF n = 0 THEN 1 ELSE 2 * Pow2(n - 1)
\* time.sleep(0.1 * (2 ** (attempt - 1))), in milliseconds
BackoffMs(attempt) == 100 * Pow2(attempt - 1)

AttemptRecord(attempt, status, error_type) ==
    [attempt |-> attempt, status |-> status, error_type |-> error_type]

\* An invoker is called with one argument for an integer parameter.
\* max_retries is read by execute_tool_with_retry only; the other invokers
\* make one attempt.
Invoke(invoker, value, max_retries) ==
    /\ invocation.pc \in {"idle", "done"}
    /\ invocation' =
          [pc |-> IF invoker = "enhanced" /\ max_retries < 1 THEN "done" ELSE "attempt",
           invoker |-> invoker, value |-> value, max_retries |-> max_retries,
           attempt |-> 1, attempts |-> <<>>, calls |-> <<>>, sleeps |-> <<>>,
           total_attempts |-> IF invoker = "enhanced" /\ max_retries < 1
                              THEN max_retries ELSE 0,
           final_status |-> IF invoker = "enhanced" /\ max_retries < 1
                            THEN "failed" ELSE "none",
           result |-> Raised(NoWords)]
    /\ UNCHANGED <<thinkVars, orchVars, parsed, memory, tasks, task_objects,
                   coroutines, api_response>>

\* One attempt: the argument is prepared, tool_func is called and returns or
\* raises (outcome), and the except clause decides how the call goes on.
Attempt(outcomes) ==
    /\ invocation.pc = "attempt"
    /\ \E outcome \in outcomes :
          LET prepared == PrepareArgument(invocation.invoker, invocation.value)
              end == IF prepared.raised THEN prepared ELSE outcome
              error_type == _classify_error(end.words)
              last == \/ invocation.invoker # "enhanced"
                      \/ ~end.raised
                      \/ ~_should_retry(error_type)
                      \/ invocation.attempt = invocation.max_retries
          IN  invocation' =
                 [invocation EXCEPT
                    !.calls = IF prepared.raised THEN @ ELSE Append(@, prepared.value),
                    !.attempts = Append(@, AttemptRecord(invocation.attempt,
                                            IF end.raised THEN "failed" ELSE "success",
                                            IF end.raised THEN error_type ELSE "none")),
                    !.pc = IF last THEN "done" ELSE "backoff",
                    !.total_attempts = IF last THEN invocation.attempt ELSE @,
                    !.final_status = IF ~last THEN @
                                     ELSE IF end.raised THEN "failed" ELSE "success",
                    !.result = end]
    /\ UNCHANGED <<thinkVars, orchVars, parsed, memory, tasks, task_objects,
                   coroutines, api_response>>

\* enhanced-agent.py line 284 and the next turn of the loop
Backoff ==
    /\ invocation.pc = "backoff"
    /\ invocation' = [invocation EXCEPT !.sleeps = Append(@, BackoffMs(invocation.attempt)),
                                        !.attempt = @ + 1,
                                        !.pc = "attempt"]
    /\ UNCHANGED <<thinkVars, orchVars, parsed, memory, tasks, task_objects,
                   coroutines, api_response>>

\* Inputs: the invokers, the values of the argument (the integer 5 and the
\* strings of up to MaxArgLen characters), the attempt caps and what the
\* capability does.
MaxArgLen == 2
MaxRetries == 3
Invokers == {"base", "simple", "server", "enhanced"}
ArgChars == {"1", "5", "x"}
ArgValues ==
    {IntVal(5)} \cup {StrVal(chars) : chars \in UNION {[1..n -> ArgChars] : n \in 0..MaxArgLen}}
CapabilityOutcomes ==
    {Returned(IntVal(0)), Raised({"connection"}), Raised({"timeout", "not found"}),
     Raised({"permission"}), Raised(NoWords)}

NextInvoke ==
    \/ \E invoker \in Invokers, value \in ArgValues, max_retries \in 0..MaxRetries :
          Invoke(invoker, value, max_retries)
    \/ Attempt(CapabilityOutcomes)
    \/ Backoff

\* Calls of the four invokers with every argument value and capability
\* behaviour.
SpecInvoke == ThinkInit /\ [][NextInvoke]_vars

\* C21: every invoker that is given a string writing an integer in base 10
\* for an integer parameter calls the capability, and calls it with that
\* integer.
C21_IntegerArgumentConverted ==
    (/\ invocation.pc = "done"
     /\ invocation.max_retries >= 1
     /\ invocation.value.t = "str"
     /\ IsDecimal(invocation.value.v))
    => /\ invocation.calls # <<>>
       /\ \A i \in 1..Len(invocation.calls) :
             invocation.calls[i] = IntVal(Decimal(invocation.value.v))

\* C23: execute_tool_with_retry makes at most max_retries attempts; every
\* attempt before the last one failed with NETWORK_ERROR and was followed by
\* a sleep of 100 * 2^(attempt-1) ms, no sleep follows the last attempt; the
\* call ends with success at the first attempt that succeeds, with
\* total_attempts its number, and with failed at the first failure of
\* another class or at attempt max_retries.
C23_BoundedRetry ==
    invocation.pc # "idle" /\ invocation.invoker = "enhanced" =>
        LET n == Len(invocation.attempts)
        IN  /\ n <= invocation.max_retries
            /\ Len(invocation.calls) <= invocation.max_retries
            /\ \A i \in 1..n : invocation.attempts[i].attempt = i
            /\ \A i \in 1..(n - 1) :
                  /\ invocation.attempts[i].status = "failed"
                  /\ invocation.attempts[i].error_type = "NETWORK_ERROR"
            /\ invocation.pc = "backoff" =>
                  /\ invocation.attempts[n].error_type = "NETWORK_ERROR"
                  /\ n < invocation.max_retries
                  /\ invocation.sleeps = [i \in 1..(n - 1) |-> BackoffMs(i)]
            /\ invocation.pc \in {"attempt", "done"} /\ invocation.max_retries >= 1 =>
                  invocation.sleeps =
                     [i \in 1..(invocation.attempt - 1) |-> BackoffMs(i)]
            /\ invocation.pc = "done" /\ invocation.max_retries >= 1 =>
                  /\ invocation.total_attempts = n
                  /\ invocation.attempt = n
                  /\ invocation.final_status = "success"
                        <=> invocation.attempts[n].status = "success"
                  /\ invocation.final_status = "failed" =>
                        \/ invocation.attempts[n].error_type # "NETWORK_ERROR"
                        \/ n = invocation.max_retries

\* Three attempts failed with NETWORK_ERROR: two sleeps, of 100 and 200 ms.
C23_Witness ==
    /\ invocation.pc = "done"
    /\ invocation.invoker = "enhanced"
    /\ invocation.max_retries = 3
    /\ invocation.total_attempts = 3
    /\ invocation.final_status = "failed"
    /\ invocation.sleeps = <<100, 200>>

-----------------------------------------------------------------------------
(* The response parsers: BaseAgent.parse_tool_call and the parse_tool_call  *)
(* of simple-agent.py and simple-server.py                                  *)

\* text[start:end] with start = text.find("{") and end = text.rfind("}") + 1
BraceSpan(text) == SubSeq(text, Find(text, "{"), RFind(text, "}"))

\* SimpleAgent.parse_tool_call (simple-agent.py, simple-server.py)
SimpleAgent_parse_tool_call(raw) ==
    LET text == Strip(raw)
        dec == JsonLoads(BraceSpan(text))
    IN  IF /\ HasChar(text, "{") /\ HasChar(text, "}")
           /\ dec.ok /\ dec.obj.tool # NoKey /\ dec.obj.arguments # NoKey
        THEN Call(dec.obj.tool, dec.obj.arguments)
        ELSE NoCall

ParseWith(parser, text) ==
    IF parser = "base" THEN parse_tool_call(text) ELSE SimpleAgent_parse_tool_call(text)

\* A parser is applied to the text it was given.
Parse ==
    /\ parsed.pc = "called"
    /\ parsed' = [parsed EXCEPT !.pc = "done", !.ret = ParseWith(parsed.parser, parsed.text)]
    /\ UNCHANGED <<thinkVars, orchVars, invocation, memory, tasks, task_objects,
                   coroutines, api_response>>

\* Inputs: the texts of up to MaxTextLen tokens made of braces, parentheses,
\* blanks, prose, an object with both fields and an object without
\* 'arguments'.
MaxTextLen == 5
Parsers == {"base", "simple"}
TextTokens ==
    {P("{"), P("}"), P("("), P(")"), P(" "), W("prose"),
     J(Obj(JStr("web_search"), JMap("args"))), J(Obj(JStr("web_search"), NoKey))}
ParseTexts == UNION {[1..n -> TextTokens] : n \in 0..MaxTextLen}

ParseInit ==
    /\ AgentsInit
    /\ invocation = NoInvocation
    /\ parsed \in [pc : {"called"}, parser : Parsers, text : ParseTexts, ret : {NoCall}]
    /\ memory = NoMemory
    /\ tasks = {}
    /\ task_objects = <<>>
    /\ coroutines = <<>>
    /\ api_response = NoResponse

\* Each parser applied to each text.
SpecParse == ParseInit /\ [][Parse]_vars

\* The span from the first '{' to the last '}' decodes to a mapping holding
\* 'tool' and 'arguments'
SpanIsCall(text) ==
    /\ HasChar(text, "{") /\ HasChar(text, "}")
    /\ JsonLoads(BraceSpan(text)).ok
    /\ JsonLoads(BraceSpan(text)).obj.tool # NoKey
    /\ JsonLoads(BraceSpan(text)).obj.arguments # NoKey

\* C22: a parser returns the name and the arguments of the object whenever
\* the span from the first '{' to the last '}' of the text decodes to a
\* mapping with both fields, whatever surrounds the span; it returns None
\* when the span does not and the text holds no parenthesised call.
C22_SpanDecides ==
    parsed.pc = "done" =>
        /\ SpanIsCall(parsed.text) =>
              parsed.ret = Call(JsonLoads(BraceSpan(parsed.text)).obj.tool,
                                JsonLoads(BraceSpan(parsed.text)).obj.arguments)
        /\ (/\ ~SpanIsCall(parsed.text)
            /\ ~(HasChar(parsed.text, "(") /\ HasChar(parsed.text, ")")))
              => parsed.ret = NoCall

-----------------------------------------------------------------------------
(* Step contexts, conversation histories and the execution log: claims *)

\* The value of key step_d_result: the output recorded for d, None when the
\* results hold no output for d
RecordedOutput(res, d) == IF d \in DOMAIN res THEN res[d].output ELSE NoneText

\* C24: the context a worker is given for a step is the run-level context
\* followed by one key step_d_result per dependency d of the step, holding
\* the output recorded for d; executing the step leaves the run-level
\* context as it was.
C24_StepContextIsScoped ==
    [][opc = "think" =>
          LET step == PlanSteps(plan)[step_index]
              history == conversation_history'[step.agent]
          IN  /\ run_context' = run_context
              /\ history # conversation_history[step.agent] =>
                    /\ Len(history) >= 2
                    /\ history[Len(history) - 1].role = "user"
                    /\ history[Len(history) - 1].content.text = step.action
                    /\ history[Len(history) - 1].content.context =
                          run_context \o
                          [i \in 1..Len(step.dependencies) |->
                              Item(StepKey(step.dependencies[i]),
                                   RecordedOutput(results, step.dependencies[i]))]]_vars

\* A run with a run-level context: the first worker was given that context,
\* the second the same context and the key of its dependency on the first.
C24_Witness ==
    /\ Completed
    /\ Len(Steps) = 2
    /\ run_context # NoContext
    /\ Steps[1].agent # Steps[2].agent
    /\ Steps[1].dependencies = <<>>
    /\ Steps[2].dependencies = <<Steps[1].id>>
    /\ invoked = {1, 2}
    /\ Len(conversation_history[Steps[1].agent]) = 2
    /\ conversation_history[Steps[1].agent][1].content.context = run_context
    /\ Len(conversation_history[Steps[2].agent]) = 2
    /\ conversation_history[Steps[2].agent][1].content.context =
          Append(run_context,
                 Item(StepKey(Steps[1].id), returned.results[Steps[1].id].output))

\* Every step names a registered worker
AllRegistered == \A i \in 1..Len(Steps) : Steps[i].agent \in agents
\* Every dependency of a step is the id of a step placed before it
DependenciesEarlier ==
    \A i \in 1..Len(Steps) :
        \A j \in 1..Len(Steps[i].dependencies) :
            \E k \in 1..(i - 1) : Steps[k].id = Steps[i].dependencies[j]
\* No think of a worker raised
NoWorkerRaised == \A k \in DOMAIN results : results[k].status # "error"

\* C25: a run over a plan with distinct ids, registered workers and
\* dependencies on earlier steps only, in which no worker raises, returns
\* status success and, for every step, a success entry with the output the
\* worker returned; with two or more steps the final output is the line
\* naming the query and one headed section per step.
C25_HappyPath ==
    (/\ opc = "done" /\ ~plan.hasError
     /\ DistinctIds /\ AllRegistered /\ DependenciesEarlier /\ NoWorkerRaised) =>
        /\ returned.status = "success"
        /\ Len(execution_log) = Len(Steps)
        /\ DOMAIN returned.results = {Steps[i].id : i \in 1..Len(Steps)}
        /\ \A i \in 1..Len(Steps) :
              /\ i \in invoked
              /\ Steps[i].id \in DOMAIN returned.results
              /\ i \in DOMAIN execution_log
              /\ returned.results[Steps[i].id] =
                    [status |-> "success", output |-> execution_log[i].output,
                     error |-> NoneText, agent |-> Steps[i].agent]
        /\ Len(Steps) >= 2 =>
              /\ Len(AscendingOutputs(returned.results)) = Len(Steps)
              /\ SubSeq(returned.final_output, 1, 1 + Len(user_query))
                    = <<W("# Results for: ")>> \o user_query
              /\ OutputsUnderHeadings(Body, AscendingOutputs(returned.results))

\* The researcher's step and the analyst's step that depends on it both
\* succeeded, the first with the output 'facts'.
C25_Witness ==
    /\ opc = "done"
    /\ Len(Steps) = 2
    /\ Steps[1].id = 1 /\ Steps[1].agent = "researcher" /\ Steps[1].dependencies = <<>>
    /\ Steps[2].id = 2 /\ Steps[2].agent = "analyst" /\ Steps[2].dependencies = <<1>>
    /\ returned.status = "success"
    /\ returned.results[1] = Success(Answer, "researcher")
    /\ returned.results[2].status = "success"
    /\ OutputsUnderHeadings(Body, <<Answer, returned.results[2].output>>)

\* C26: executing a step changes the conversation history of the worker of
\* the step at most; the planning call changes the history of the planner at
\* most; the dependency check, the agent lookup and the synthesis change no
\* history.
C26_HistoriesAreSeparate ==
    [][/\ opc = "think" =>
             \A a \in AllAgents \ {PlanSteps(plan)[step_index].agent} :
                 conversation_history'[a] = conversation_history[a]
       /\ opc \in {"check", "agent", "synth"} =>
             conversation_history' = conversation_history
       /\ (opc \in Stopped /\ opc' \notin Stopped) =>
             \A a \in Workers : conversation_history'[a] = conversation_history[a]]_vars

\* Two steps of the researcher were executed: the researcher holds both
\* exchanges, the planner its own, the other workers nothing.
C26_Witness ==
    /\ Completed
    /\ Len(Steps) = 2
    /\ Steps[1].agent = "researcher" /\ Steps[2].agent = "researcher"
    /\ Len(conversation_history["researcher"]) = 4
    /\ Len(conversation_history["planner"]) = 2
    /\ \A a \in Workers \ {"researcher"} : conversation_history[a] = <<>>

\* C29: process_task returns status success exactly when the plan has no
\* 'error' key, whatever the statuses of the steps, and status error exactly
\* when it has one; in that case no step was processed and no worker called.
C29_StatusFollowsPlan ==
    opc = "done" =>
        /\ returned.status \in {"success", "error"}
        /\ returned.status = "success" <=> ~plan.hasError
        /\ returned.status = "error" <=> plan.hasError
        /\ plan.hasError =>
              /\ invoked = {}
              /\ unmet = <<>>
              /\ results = <<>>
              /\ returned.results = <<>>
              /\ \A a \in Workers : conversation_history[a] = <<>>

\* A run of two steps, one failed and one in error, returned success with
\* the 'unable to complete' text.
C29_Witness ==
    /\ opc = "done"
    /\ ~plan.hasError
    /\ Len(Steps) = 2
    /\ DistinctIds
    /\ returned.results[Steps[1].id].status = "failed"
    /\ returned.results[Steps[2].id].status = "error"
    /\ returned.status = "success"
    /\ returned.final_output = Unable

-----------------------------------------------------------------------------
(* ShortTermMemory *)

\* deque.append with a slip: the deque has no maxlen.
DequeAppend_Unbounded(messages, maxlen, message) == Append(messages, message)

\* deque(maxlen=maxlen).append(message): a full deque drops its oldest item,
\* a deque of maxlen 0 drops the new one
DequeAppend(messages, maxlen, message) ==
    IF maxlen = 0 THEN messages
    ELSE IF Len(messages) >= maxlen
    THEN Append(SubSeq(messages, Len(messages) - maxlen + 2, Len(messages)), message)
    ELSE Append(messages, message)

\* list(messages)[-last_n:] for last_n >= 1
LastMessages(messages, last_n) ==
    SubSeq(messages,
           IF last_n >= Len(messages) THEN 1 ELSE Len(messages) - last_n + 1,
           Len(messages))

\* ShortTermMemory(max_messages). added is the sequence of all messages
\* added since the construction or the last clear; number counts the
\* add_message calls.
ShortTermMemory(max_messages) ==
    /\ memory = NoMemory
    /\ memory' = [pc |-> "live", op |-> "init", max_messages |-> max_messages,
                  messages |-> <<>>, added |-> <<>>, number |-> 0,
                  last_n |-> 0, got |-> <<>>]
    /\ UNCHANGED <<thinkVars, orchVars, invocation, parsed, tasks, task_objects,
                   coroutines, api_response>>

MaxAdds == 4
MaxWindow == 3

add_message(role) ==
    /\ memory.pc = "live"
    /\ memory.number < MaxAdds
    /\ LET message == [role |-> role, content |-> memory.number + 1]
       IN  memory' = [memory EXCEPT
                        !.op = "add_message",
                        !.number = @ + 1,
                        !.added = Append(@, message),
                        !.messages = DequeAppend(@, memory.max_messages, message)]
    /\ UNCHANGED <<thinkVars, orchVars, invocation, parsed, tasks, task_objects,
                   coroutines, api_response>>

\* get_messages(last_n); last_n = 0 stands for None as well (if last_n)
get_messages(last_n) ==
    /\ memory.pc = "live"
    /\ memory' = [memory EXCEPT
                     !.op = "get_messages",
                     !.last_n = last_n,
                     !.got = IF last_n # 0 THEN LastMessages(memory.messages, last_n)
                             ELSE memory.messages]
    /\ UNCHANGED <<thinkVars, orchVars, invocation, parsed, tasks, task_objects,
                   coroutines, api_response>>

clear ==
    /\ memory.pc = "live"
    /\ memory' = [memory EXCEPT !.op = "clear", !.messages = <<>>, !.added = <<>>]
    /\ UNCHANGED <<thinkVars, orchVars, invocation, parsed, tasks, task_objects,
                   coroutines, api_response>>

Roles == {"user", "assistant"}

NextMemory ==
    \/ \E max_messages \in 0..MaxWindow : ShortTermMemory(max_messages)
    \/ \E role \in Roles : add_message(role)
    \/ \E last_n \in 0..(MaxWindow + 1) : get_messages(last_n)
    \/ clear

\* A ShortTermMemory of every window size under calls of its methods.
SpecMemory == ThinkInit /\ [][NextMemory]_vars

Min(a, b) == IF a <= b THEN a ELSE b

\* C27: the memory holds at most max_messages messages, and they are the
\* last ones added since the last clear, in the order they were added; right
\* after get_messages(n) with n >= 1 the list returned is the last
\* min(n, size) messages held.
C27_SlidingWindow ==
    memory.pc = "live" =>
        LET size == Len(memory.messages)
            all == Len(memory.added)
        IN  /\ size <= memory.max_messages
            /\ size = Min(memory.max_messages, all)
            /\ \A i \in 1..size : memory.messages[i] = memory.added[all - size + i]
            /\ (memory.op = "get_messages" /\ memory.last_n >= 1) =>
                  /\ Len(memory.got) = Min(memory.last_n, size)
                  /\ \A i \in 1..Len(memory.got) :
                        /\ size - Len(memory.got) + i \in 1..size
                        /\ memory.got[i] = memory.messages[size - Len(memory.got) + i]

\* A window of three messages after four were added: the first was evicted,
\* and get_messages(2) returned the third and the fourth.
C27_Witness ==
    /\ memory.pc = "live"
    /\ memory.op = "get_messages"
    /\ memory.max_messages = 3
    /\ memory.number = 4
    /\ Len(memory.added) = 4
    /\ Len(memory.messages) = 3
    /\ memory.messages[1].content = 2
    /\ memory.last_n = 2
    /\ Len(memory.got) = 2
    /\ memory.got[1].content = 3
    /\ memory.got[2].content = 4

-----------------------------------------------------------------------------
(* Several runs on one Orchestrator *)

\* The plans of the runs: no step, one step, a step and a step that depends
\* on it, the same after a step of an unknown agent, and the same in the
\* reverse order.
RunStep(id, agent, dependencies) == Step(id, agent, <<W("act")>>, dependencies)
RunPlans ==
    {<<>>,
     <<RunStep(1, "researcher", <<>>)>>,
     <<RunStep(1, "researcher", <<>>), RunStep(2, "analyst", <<1>>)>>,
     <<RunStep(1, "ghost", <<>>), RunStep(2, "analyst", <<1>>)>>,
     <<RunStep(2, "analyst", <<1>>), RunStep(1, "researcher", <<>>)>>}
\* The planner answers with a plan or with prose; a worker answers or raises.
RunPlannerOutcomes == {Ok(PlanText(steps)) : steps \in RunPlans} \cup {Ok(Answer)}
RunStepOutcomes == {Ok(Answer), Ok(JsonCall(JList("x")))}
RunPlannerEnds == ThinkEnds("planner", RunPlannerOutcomes, {"returns"})
RunWorkerEnds == [a \in Workers |-> ThinkEnds(a, RunStepOutcomes, {"returns"})]

NextRuns ==
    \/ \E query \in Queries : process_task(query, NoContext, RunPlannerEnds, Stopped)
    \/ CheckStep
    \/ GetAgent
    \/ ExecuteStep(RunWorkerEnds)
    \/ Synthesize
    \/ reset

\* Up to MaxRuns calls of process_task on one Orchestrator, with calls of
\* reset between them.
SpecRuns == Init /\ [][NextRuns]_vars

\* C28: executing a step appends one entry for the step to the execution
\* log when the step is recorded with status success and leaves the log
\* alone otherwise; no other part of a run and no start of a run changes the
\* log, so entries are in the order the steps were executed and stay until
\* reset; the 'logs' of a result is the whole log.
C28_LogGrowsWithSuccesses ==
    [][/\ opc = "think" =>
             LET step == PlanSteps(plan)[step_index]
             IN  /\ step.id \in DOMAIN results'
                 /\ IF results'[step.id].status = "success"
                    THEN execution_log' =
                            Append(execution_log,
                                   [step_id |-> step.id, agent |-> step.agent,
                                    action |-> step.action,
                                    output |-> results'[step.id].output])
                    ELSE execution_log' = execution_log
       /\ opc \in {"check", "agent", "synth"} => execution_log' = execution_log
       /\ (opc \in Stopped /\ run_count' # run_count) => execution_log' = execution_log
       /\ (opc' = "done" /\ run_count' # run_count) => returned'.logs = execution_log'
       /\ (opc' = "done" /\ opc = "synth") => returned'.logs = execution_log']_vars

\* The second run on an Orchestrator has one successful step and returns
\* logs of three entries: two of the first run and its own.
C28_Witness ==
    /\ run_count = 2
    /\ Completed
    /\ Cardinality(SuccessIds(returned.results)) = 1
    /\ Len(returned.logs) = 3
    /\ returned.logs = execution_log
    /\ returned.logs[1].step_id = 1
    /\ returned.logs[2].step_id = 2

-----------------------------------------------------------------------------
(* The API: the task store and the task coroutines (api/main.py) *)

MaxTasks == 2

None == [some |-> FALSE]
Some(value) == [some |-> TRUE, value |-> value]

\* The dict stored for a task, as far as the handlers write it
Task(status, result, error) == [status |-> status, result |-> result, error |-> error]

\* A coroutine of process_task: its position, and the number of runs of the
\* orchestrator when it reached the call of line 98
Coroutine(pc, run) == [pc |-> pc, run |-> run]

\* No coroutine is between two awaits: the event loop is free to run another
\* handler or coroutine.
LoopFree == \A id \in DOMAIN coroutines : coroutines[id].pc # "calling"

\* POST /api/task. The ids stand for the uuid4 strings, which do not repeat.
create_task ==
    /\ LoopFree
    /\ Len(task_objects) < MaxTasks
    /\ LET task_id == Len(task_objects) + 1
       IN  /\ tasks' = tasks \cup {task_id}
           /\ task_objects' = Append(task_objects, Task("pending", None, None))
           /\ coroutines' = Append(coroutines, Coroutine("start", 0))
    /\ UNCHANGED <<thinkVars, orchVars, invocation, parsed, memory, api_response>>

\* process_task, lines 89-95: up to the first await
ProcessStart(task_id) ==
    /\ LoopFree
    /\ task_id \in DOMAIN coroutines
    /\ coroutines[task_id].pc = "start"
    /\ IF task_id \notin tasks
       THEN /\ coroutines' = [coroutines EXCEPT ![task_id].pc = "done"]
            /\ UNCHANGED task_objects
       ELSE /\ task_objects' = [task_objects EXCEPT ![task_id].status = "processing"]
            /\ coroutines' = [coroutines EXCEPT ![task_id].pc = "await_processing"]
    /\ UNCHANGED <<thinkVars, orchVars, invocation, parsed, memory, tasks, api_response>>

\* process_task resumes after the await of line 95 and reaches the call of
\* the orchestrator; the orchestrator's run is synchronous.
ProcessResume(task_id) ==
    /\ LoopFree
    /\ task_id \in DOMAIN coroutines
    /\ coroutines[task_id].pc = "await_processing"
    /\ run_count < MaxRuns
    /\ coroutines' = [coroutines EXCEPT ![task_id] = Coroutine("calling", run_count)]
    /\ UNCHANGED <<thinkVars, orchVars, invocation, parsed, memory, tasks,
                   task_objects, api_response>>

\* line 98: orchestrator.process_task(task["query"], task.get("context"))
OrchestratorCall(ends) ==
    /\ \E task_id \in DOMAIN coroutines :
          coroutines[task_id] = Coroutine("calling", run_count)
    /\ \E query \in Queries : process_task(query, NoContext, ends, Stopped)

\* lines 103-113 when the orchestrator returned, lines 115-118 when it raised
ProcessEnd(task_id) ==
    /\ task_id \in DOMAIN coroutines
    /\ coroutines[task_id].pc = "calling"
    /\ coroutines[task_id].run < run_count
    /\ opc \in {"done", "raised"}
    /\ IF opc = "done"
       THEN /\ task_objects' = [task_objects EXCEPT
                                   ![task_id].status = "completed",
                                   ![task_id].result = Some(returned)]
            /\ coroutines' = [coroutines EXCEPT ![task_id].pc = "await_completed"]
       ELSE /\ task_objects' = [task_objects EXCEPT
                                   ![task_id].status = "failed",
                                   ![task_id].error = Some(returned.error)]
            /\ coroutines' = [coroutines EXCEPT ![task_id].pc = "await_failed"]
    /\ UNCHANGED <<thinkVars, orchVars, invocation, parsed, memory, tasks, api_response>>

\* the coroutine resumes after its last await and ends
ProcessReturn(task_id) ==
    /\ LoopFree
    /\ task_id \in DOMAIN coroutines
    /\ coroutines[task_id].pc \in {"await_completed", "await_failed"}
    /\ coroutines' = [coroutines EXCEPT ![task_id].pc = "done"]
    /\ UNCHANGED <<thinkVars, orchVars, invocation, parsed, memory, tasks,
                   task_objects, api_response>>

\* GET /api/task/{task_id}
get_task(task_id) ==
    /\ LoopFree
    /\ api_response' =
          IF task_id \in tasks
          THEN [status |-> "200", task_id |-> task_id, task |-> task_objects[task_id]]
          ELSE [status |-> "404", task_id |-> task_id, task |-> None]
    /\ UNCHANGED <<thinkVars, orchVars, invocation, parsed, memory, tasks,
                   task_objects, coroutines>>

\* clear_tasks with a slip: every task is removed.
clear_tasks_All ==
    /\ LoopFree
    /\ tasks' = {}
    /\ api_response' = [status |-> "200", task_id |-> 0, task |-> None]
    /\ UNCHANGED <<thinkVars, orchVars, invocation, parsed, memory, task_objects,
                   coroutines>>

\* DELETE /api/tasks/clear
clear_tasks ==
    /\ LoopFree
    /\ tasks' = {tid \in tasks : task_objects[tid].status \notin {"completed", "failed"}}
    /\ api_response' = [status |-> "200", task_id |-> 0, task |-> None]
    /\ UNCHANGED <<thinkVars, orchVars, invocation, parsed, memory, task_objects,
                   coroutines>>

\* The plans of the runs the API starts, and what the planner and the
\* workers do in them (the planner's model call can fail on a tool name that
\* is a list, which raises out of the orchestrator).
ApiPlans ==
    {<<RunStep(1, "researcher", <<>>)>>,
     <<RunStep(1, "ghost", <<>>), RunStep(2, "analyst", <<1>>)>>}
ApiPlannerOutcomes ==
    {Ok(PlanText(steps)) : steps \in ApiPlans} \cup {Ok(Answer), Ok(JsonCall(JList("x")))}
ApiPlannerEnds == ThinkEnds("planner", ApiPlannerOutcomes, {"returns"})
ApiWorkerEnds == [a \in Workers |-> ThinkEnds(a, RunStepOutcomes, {"returns"})]

NextApi ==
    \/ create_task
    \/ \E task_id \in 1..MaxTasks : ProcessStart(task_id)
    \/ \E task_id \in 1..MaxTasks : ProcessResume(task_id)
    \/ OrchestratorCall(ApiPlannerEnds)
    \/ CheckStep
    \/ GetAgent
    \/ ExecuteStep(ApiWorkerEnds)
    \/ Synthesize
    \/ \E task_id \in 1..MaxTasks : ProcessEnd(task_id)
    \/ \E task_id \in 1..MaxTasks : ProcessReturn(task_id)
    \/ \E task_id \in 1..(MaxTasks + 1) : get_task(task_id)
    \/ clear_tasks

\* The API on one event loop: handlers and task coroutines interleave at the
\* awaits.
SpecApi == Init /\ [][NextApi]_vars

StatusMoves ==
    {<<"pending", "processing">>, <<"processing", "completed">>,
     <<"processing", "failed">>}

\* C30: the status of a task starts as pending and moves only from pending
\* to processing and from processing to completed or failed; a task holds a
\* result only while its status is completed; a task that leaves the store
\* is completed or failed, and a pending or processing task is in the store.
C30_TaskLifecycle ==
    [][/\ \A id \in DOMAIN task_objects' :
             /\ id \in DOMAIN task_objects =>
                   \/ task_objects'[id].status = task_objects[id].status
                   \/ <<task_objects[id].status, task_objects'[id].status>> \in StatusMoves
             /\ id \notin DOMAIN task_objects => task_objects'[id].status = "pending"
             /\ task_objects'[id].result # None => task_objects'[id].status = "completed"
             /\ task_objects'[id].status \in {"pending", "processing"} => id \in tasks'
       /\ DOMAIN task_objects \subseteq DOMAIN task_objects'
       /\ \A id \in tasks \ tasks' :
             /\ id \in DOMAIN task_objects
             /\ task_objects[id].status \in {"completed", "failed"}]_vars

\* The first task completed and was cleared from the store while the second
\* is being processed and still in it; the last request was a get_task of
\* the first task, answered 404.
C30_Witness ==
    /\ Len(task_objects) = 2
    /\ task_objects[1].status = "completed"
    /\ task_objects[1].result # None
    /\ 1 \notin tasks
    /\ task_objects[2].status = "processing"
    /\ 2 \in tasks
    /\ api_response = [status |-> "404", task_id |-> 1, task |-> None]

====
